---- MODULE Spec2Model ----
(***************************************************************************)
(* A model of the combat and progression engine of dnd-combat-game:        *)
(* dndgame/entity.py, character.py, enemy.py, races.py, weapons.py,        *)
(* spells.py and combat.py.  One player Character and one goblin Enemy     *)
(* are registered in one Combat, as main.py's combat_encounter does.       *)
(***************************************************************************)
EXTENDS Integers, Sequences, FiniteSets, TLC

VARIABLES
    race,                      \* Character.race (its name)
    stats,                     \* Entity.stats of each combatant, a mapping
    hp,                        \* Entity.hp of each combatant
    max_hp,                    \* Entity.max_hp of each combatant
    weapon,                    \* the weapon attribute ("-" where there is none)
    level,                     \* Character.level
    experience,                \* Character.experience
    experience_to_next_level,  \* Character.experience_to_next_level
    spell_slots,               \* the player's spell_slots mapping
    max_spell_slots,           \* the player's max_spell_slots mapping
    combatants,                \* Combat.combatants, in the constructor's order
    initiative_order,          \* Combat.initiative_order
    round,                     \* Combat.round
    pc,                        \* "idle"; "leveling" inside gain_experience's loop; "while"
                               \* and "turn" inside combat_encounter; "crashed"
    call,                      \* gain_experience's argument and the state it was called in
    applied,                   \* how many times apply_racial_bonuses has run
    turn,                      \* combat_encounter: the place in initiative_order of the turn
    ret                        \* the last call: its inputs, dice and result

vars == <<race, stats, hp, max_hp, weapon, level, experience,
          experience_to_next_level, spell_slots, max_spell_slots,
          combatants, initiative_order, round, pc, call, applied, turn, ret>>

----------------------------------------------------------------------------
(* Bounds of the model. *)

\* take_damage is called with a damage of 0..MaxDamage
MaxDamage == 8
\* gain_experience is called while it leaves the level at most MaxLevel
MaxLevel == 3
\* apply_racial_bonuses runs at most MaxApplied times on one character
MaxApplied == 2
\* the highest spell level whose slots the model tracks
MaxSlotLevel == 2
\* the most slots of one level
MaxSlots == 2
\* the highest ability score to which the model still adds racial bonuses
MaxScore == 20
\* the most rounds of one encounter
MaxRounds == 3
\* the highest level of the specification of the thresholds
MaxThresholdLevel == 5

----------------------------------------------------------------------------
(* Program constants. *)

Player == "player"
Goblin == "goblin"
\* create_goblin("Goblin 2"), the third combatant of test_combat_multiple_combatants
Goblin2 == "goblin2"
\* a second Character of the same race
Player2 == "player2"
Characters == {Player, Player2}
Entities == {Player, Player2, Goblin, Goblin2}

StatNames == <<"STR", "DEX", "CON", "INT", "WIS", "CHA">>
StatSet == {StatNames[i] : i \in 1..Len(StatNames)}

\* Entity.__init__: stats = {}
EmptyStats == [k \in {} |-> 0]

\* Character(name, selected_race, 10)
PlayerBaseHp == 10
\* Entity.__init__: armor_class = 10
DefaultArmorClass == 10
\* create_goblin
GoblinHp == 7
GoblinArmorClass == 13
GoblinStats ==
    [k \in StatSet |->
        CASE k = "STR" -> 8 [] k = "DEX" -> 14 [] k = "CON" -> 10
          [] k = "INT" -> 10 [] k = "WIS" -> 8 [] k = "CHA" -> 8]

armor_class == [c \in Entities |-> IF c \notin Characters THEN GoblinArmorClass ELSE DefaultArmorClass]

\* Character.__init__
InitialLevel == 1
InitialThreshold == 100

Races == {"Human", "Elf", "Dwarf", "Halfling"}

\* The weapon catalog: sides of the die, number of dice, flat bonus.
WEAPONS ==
    [w \in {"Unarmed", "Dagger", "Shortsword", "Longsword", "Greatsword",
            "Battleaxe", "Greataxe", "Mace", "Rapier", "Warhammer"} |->
        CASE w \in {"Unarmed", "Dagger"} -> [damage_dice |-> 4, damage_count |-> 1, damage_bonus |-> 0]
          [] w \in {"Shortsword", "Mace"} -> [damage_dice |-> 6, damage_count |-> 1, damage_bonus |-> 0]
          [] w = "Greatsword" -> [damage_dice |-> 6, damage_count |-> 2, damage_bonus |-> 0]
          [] w = "Greataxe" -> [damage_dice |-> 12, damage_count |-> 1, damage_bonus |-> 0]
          [] OTHER -> [damage_dice |-> 8, damage_count |-> 1, damage_bonus |-> 0]]

\* Enemy.__init__ sets no weapon attribute
NoWeapon == "-"

get_starting_weapon_for_race(race_name) ==
    CASE race_name = "Human" -> "Longsword"
      [] race_name = "Elf" -> "Shortsword"
      [] race_name = "Dwarf" -> "Battleaxe"
      [] race_name = "Halfling" -> "Dagger"
      [] OTHER -> "Unarmed"

\* Character.__init__ sets no spell_slots and no max_spell_slots: no tracked level
NoSlots == [l \in {} |-> 0]

----------------------------------------------------------------------------
(* Dice.  roll(sides, count) is the sum of count draws from 1..sides; a   *)
(* specification draws the sums of the sample it names.                    *)

Roll(sides, count, sample) == {r \in count..(sides * count) : r \in sample}

\* d20 faces: the smallest, the largest, and those next to the hit/miss
\* boundaries of the combatants
Boundaries == {1, 9, 10, 11, 13, 16, 17, 20}
\* a sure miss and a sure hit
MissAndHit == {1, 20}
\* sums of weapon, spell and hit dice
LowAndHigh == {1, 8}
\* sums of the weapon dice
WeaponSums == {1, 2, 4, 8, 12}
\* d20 faces of the initiative rolls: ties and both orders for every DEX modifier
InitiativeFaces == {5, 10, 11, 12, 13}
High == {8}

\* 3d6 for each ability: the score vectors the model rolls
SampledScores ==
    { [k \in StatSet |->
          CASE k = "STR" -> 3 [] k = "DEX" -> 9 [] k = "CON" -> 3
            [] k = "INT" -> 3 [] OTHER -> 10],
      [k \in StatSet |->
          CASE k = "STR" -> 16 [] k = "DEX" -> 14 [] k = "CON" -> 14
            [] OTHER -> 10] }

RolledStats == {s \in SampledScores : \A k \in StatSet : s[k] \in 3..18}

Max(a, b) == IF a >= b THEN a ELSE b
Min(a, b) == IF a <= b THEN a ELSE b

----------------------------------------------------------------------------
(* The result of the last call. *)

NoRet == [op |-> "none", a |-> "-", b |-> "-", key |-> "-", d20 |-> 0,
          dice |-> 0, value |-> 0, rolls |-> <<>>, status |-> "ok"]

Ret(op, a, b, key, d20, dice, value, status) ==
    [op |-> op, a |-> a, b |-> b, key |-> key, d20 |-> d20, dice |-> dice,
     value |-> value, rolls |-> <<>>, status |-> status]

NoCall == [amount |-> 0, experience |-> 0, level |-> 0, threshold |-> 0]

----------------------------------------------------------------------------
(* Entity *)

\* a modifier rounded toward zero, as C's integer division would
ModifierTruncated(score) ==
    IF score >= 10 THEN (score - 10) \div 2 ELSE -((10 - score) \div 2)

\* the arithmetic of get_modifier: Python's // rounds toward negative infinity
Modifier(score) == (score - 10) \div 2

HasStat(c, stat) == stat \in DOMAIN stats[c]

\* Entity.get_modifier, where the stat is present
get_modifier(c, stat) == Modifier(stats[c][stat])

\* the combatants registered in the combat
Registered == {combatants[i] : i \in 1..Len(combatants)}

\* Entity.is_alive
is_alive(c) == hp[c] > 0

\* take_damage without its floor
DamagedHpUnfloored(h, damage) == h - damage

\* the hp Entity.take_damage leaves
DamagedHp(h, damage) == Max(0, h - damage)

\* the state after Character(name, race, 10), create_goblin() for each enemy and
\* Combat(*entities), the character's slot mappings being slots and max_slots
Built(entities, slots, max_slots) ==
    /\ race \in Races
    /\ stats = [c \in Entities |-> IF c \notin Characters THEN GoblinStats ELSE EmptyStats]
    /\ hp = [c \in Entities |-> IF c \notin Characters THEN GoblinHp ELSE 0]
    /\ max_hp = [c \in Entities |-> IF c \notin Characters THEN GoblinHp ELSE 0]
    /\ weapon = [c \in Entities |->
                    IF c \notin Characters THEN NoWeapon ELSE get_starting_weapon_for_race(race)]
    /\ level = InitialLevel
    /\ experience = 0
    /\ experience_to_next_level = InitialThreshold
    /\ spell_slots = slots
    /\ max_spell_slots = max_slots
    /\ combatants = entities
    /\ initiative_order = <<>>
    /\ round = 0
    /\ pc = "idle"
    /\ call = NoCall
    /\ applied = 0
    /\ turn = 0
    /\ ret = NoRet

\* the constructors of src: the Character has no spell slots
Constructed(entities) == Built(entities, NoSlots, NoSlots)

\* Combat(player, goblin)
Init == Constructed(<<Player, Goblin>>)

\* a call of c.get_modifier(stat)
GetModifier(c, stat) ==
    /\ pc = "idle"
    /\ ret' = IF HasStat(c, stat)
                THEN Ret("get_modifier", c, "-", stat, 0, 0, get_modifier(c, stat), "ok")
                ELSE Ret("get_modifier", c, "-", stat, 0, 0, 0, "KeyError")
    /\ UNCHANGED <<turn, race, stats, hp, max_hp, weapon, level, experience,
                   experience_to_next_level, spell_slots, max_spell_slots,
                   initiative_order, combatants, round, pc, call, applied>>

\* a call of c.take_damage(damage)
TakeDamage(c, damage) ==
    /\ pc = "idle"
    /\ hp' = [hp EXCEPT ![c] = DamagedHp(hp[c], damage)]
    /\ ret' = Ret("take_damage", c, "-", "-", 0, 0, damage, "ok")
    /\ UNCHANGED <<turn, race, stats, max_hp, weapon, level, experience,
                   experience_to_next_level, spell_slots, max_spell_slots,
                   initiative_order, combatants, round, pc, call, applied>>

----------------------------------------------------------------------------
(* Race *)

\* the stats each race's apply_bonuses reads and writes
BonusStats(r) ==
    CASE r = "Elf" -> <<"DEX">>
      [] r = "Dwarf" -> <<"CON">>
      [] r = "Halfling" -> <<"DEX", "CHA">>
      [] OTHER -> <<>>

\* bonuses whose Halfling amounts are swapped between DEX and CHA
apply_bonuses_swapped(r, s) ==
    CASE r = "Human" -> [k \in DOMAIN s |-> s[k] + 1]
      [] r = "Elf" -> [s EXCEPT !["DEX"] = @ + 2]
      [] r = "Dwarf" -> [s EXCEPT !["CON"] = @ + 2]
      [] r = "Halfling" -> [s EXCEPT !["DEX"] = @ + 1, !["CHA"] = @ + 2]
      [] OTHER -> s

\* Human, Elf, Dwarf, Halfling .apply_bonuses on a mapping s that holds the stats it names
apply_bonuses(r, s) ==
    CASE r = "Human" -> [k \in DOMAIN s |-> s[k] + 1]
      [] r = "Elf" -> [s EXCEPT !["DEX"] = @ + 2]
      [] r = "Dwarf" -> [s EXCEPT !["CON"] = @ + 2]
      [] r = "Halfling" -> [s EXCEPT !["DEX"] = @ + 2, !["CHA"] = @ + 1]
      [] OTHER -> s

\* whether apply_bonuses finds every stat it names
BonusesApply(r, s) == \A i \in 1..Len(BonusStats(r)) : BonusStats(r)[i] \in DOMAIN s

\* what apply_bonuses has written when it raises KeyError at the first missing stat
BonusesBeforeError(r, s) ==
    IF r = "Halfling" /\ "DEX" \in DOMAIN s THEN [s EXCEPT !["DEX"] = @ + 2] ELSE s

----------------------------------------------------------------------------
(* Character *)

\* a max_hp that forgets the CON modifier
RecomputedMaxHpNoModifier(s) == PlayerBaseHp

\* max_hp = base_hp + get_modifier("CON"), as roll_stats and apply_racial_bonuses compute it
RecomputedMaxHp(s) == PlayerBaseHp + Modifier(s["CON"])

\* Character.roll_stats
RollStats ==
    /\ pc = "idle"
    /\ \E s \in RolledStats :
        /\ stats' = [stats EXCEPT ![Player] = s]
        /\ max_hp' = [max_hp EXCEPT ![Player] = RecomputedMaxHp(s)]
        /\ hp' = [hp EXCEPT ![Player] = RecomputedMaxHp(s)]
    /\ applied' = 0
    /\ ret' = Ret("roll_stats", Player, "-", "-", 0, 0, 0, "ok")
    /\ UNCHANGED <<turn, race, weapon, level, experience, experience_to_next_level,
                   spell_slots, max_spell_slots, initiative_order, combatants, round, pc, call>>

\* Character.apply_racial_bonuses
ApplyRacialBonuses ==
    /\ pc = "idle"
    /\ applied < MaxApplied
    /\ IF BonusesApply(race, stats[Player]) /\ "CON" \in DOMAIN stats[Player]
         THEN LET s == apply_bonuses(race, stats[Player]) IN
              /\ stats' = [stats EXCEPT ![Player] = s]
              /\ max_hp' = [max_hp EXCEPT ![Player] = RecomputedMaxHp(s)]
              /\ hp' = [hp EXCEPT ![Player] = RecomputedMaxHp(s)]
              /\ applied' = applied + 1
              /\ ret' = Ret("apply_racial_bonuses", Player, "-", "-", 0, 0, 0, "ok")
         ELSE /\ stats' = [stats EXCEPT ![Player] =
                              IF BonusesApply(race, @) THEN apply_bonuses(race, @)
                                                       ELSE BonusesBeforeError(race, @)]
              /\ ret' = Ret("apply_racial_bonuses", Player, "-", "-", 0, 0, 0, "KeyError")
              /\ UNCHANGED <<hp, max_hp, applied>>
    /\ UNCHANGED <<turn, race, weapon, level, experience, experience_to_next_level,
                   spell_slots, max_spell_slots, initiative_order, combatants, round, pc, call>>

\* Character.initialize_stats: roll_stats, then apply_racial_bonuses
InitializeStats ==
    /\ pc = "idle"
    /\ \E rolled \in RolledStats :
        LET s == apply_bonuses(race, rolled) IN
        /\ stats' = [stats EXCEPT ![Player] = s]
        /\ max_hp' = [max_hp EXCEPT ![Player] = RecomputedMaxHp(s)]
        /\ hp' = [hp EXCEPT ![Player] = RecomputedMaxHp(s)]
    /\ applied' = 1
    /\ ret' = Ret("initialize_stats", Player, "-", "-", 0, 0, 0, "ok")
    /\ UNCHANGED <<turn, race, weapon, level, experience, experience_to_next_level,
                   spell_slots, max_spell_slots, initiative_order, combatants, round, pc, call>>

\* one dictionary for all characters, as a class attribute or a shared default is
StatsObjectShared(c) == IF c \in Characters THEN "Character.stats" ELSE c

\* the dictionary c.stats refers to: each instance has its own
StatsObject(c) == c

\* the stats of all entities after ch.stats has been rebound to, or changed into, s
WriteStats(ch, s) ==
    [c \in Entities |-> IF StatsObject(c) = StatsObject(ch) THEN s ELSE stats[c]]

\* ch.roll_stats() of any character
RollStatsOf(ch) ==
    /\ pc = "idle"
    /\ \E s \in RolledStats :
        /\ stats' = WriteStats(ch, s)
        /\ max_hp' = [max_hp EXCEPT ![ch] = RecomputedMaxHp(s)]
        /\ hp' = [hp EXCEPT ![ch] = RecomputedMaxHp(s)]
    /\ ret' = Ret("roll_stats", ch, "-", "-", 0, 0, 0, "ok")
    /\ UNCHANGED <<turn, race, weapon, level, experience, experience_to_next_level,
                   spell_slots, max_spell_slots, initiative_order, combatants, round,
                   pc, call, applied>>

\* ch.apply_racial_bonuses() of any character
ApplyRacialBonusesOf(ch) ==
    /\ pc = "idle"
    /\ \A k \in DOMAIN stats[ch] : stats[ch][k] < MaxScore
    /\ IF BonusesApply(race, stats[ch]) /\ "CON" \in DOMAIN stats[ch]
         THEN LET s == apply_bonuses(race, stats[ch]) IN
              /\ stats' = WriteStats(ch, s)
              /\ max_hp' = [max_hp EXCEPT ![ch] = RecomputedMaxHp(s)]
              /\ hp' = [hp EXCEPT ![ch] = RecomputedMaxHp(s)]
              /\ ret' = Ret("apply_racial_bonuses", ch, "-", "-", 0, 0, 0, "ok")
         ELSE /\ stats' = WriteStats(ch, IF BonusesApply(race, stats[ch])
                                           THEN apply_bonuses(race, stats[ch])
                                           ELSE BonusesBeforeError(race, stats[ch]))
              /\ ret' = Ret("apply_racial_bonuses", ch, "-", "-", 0, 0, 0, "KeyError")
              /\ UNCHANGED <<hp, max_hp>>
    /\ UNCHANGED <<turn, race, weapon, level, experience, experience_to_next_level,
                   spell_slots, max_spell_slots, initiative_order, combatants, round,
                   pc, call, applied>>

\* ch.initialize_stats() of any character
InitializeStatsOf(ch) ==
    /\ pc = "idle"
    /\ \E rolled \in RolledStats :
        LET s == apply_bonuses(race, rolled) IN
        /\ stats' = WriteStats(ch, s)
        /\ max_hp' = [max_hp EXCEPT ![ch] = RecomputedMaxHp(s)]
        /\ hp' = [hp EXCEPT ![ch] = RecomputedMaxHp(s)]
    /\ ret' = Ret("initialize_stats", ch, "-", "-", 0, 0, 0, "ok")
    /\ UNCHANGED <<turn, race, weapon, level, experience, experience_to_next_level,
                   spell_slots, max_spell_slots, initiative_order, combatants, round,
                   pc, call, applied>>

\* the mappings the tests assign to char.stats without CHA, INT and WIS, and
\* with CON alone
TestStats ==
    {[k \in {"STR", "DEX", "CON"} |->
         CASE k = "STR" -> 10 [] k = "DEX" -> 16 [] OTHER -> 8],
     [k \in {"CON"} |-> 16]}

\* ch.stats = s, as the tests set a character up
SetStats(ch, s) ==
    /\ pc = "idle"
    /\ stats' = [stats EXCEPT ![ch] = s]
    /\ ret' = Ret("set_stats", ch, "-", "-", 0, 0, 0, "ok")
    /\ UNCHANGED <<turn, race, hp, max_hp, weapon, level, experience,
                   experience_to_next_level, spell_slots, max_spell_slots,
                   initiative_order, combatants, round, pc, call, applied>>

\* the weapons main.py's choose_weapon is asked for in the model
EquipChoices == {"Unarmed", "Greatsword", "Greataxe"}

\* Character.equip_weapon
EquipWeapon(w) ==
    /\ pc = "idle"
    /\ weapon' = [weapon EXCEPT ![Player] = w]
    /\ ret' = Ret("equip_weapon", Player, "-", w, 0, 0, 0, "ok")
    /\ UNCHANGED <<turn, race, stats, hp, max_hp, level, experience,
                   experience_to_next_level, spell_slots, max_spell_slots,
                   initiative_order, combatants, round, pc, call, applied>>

----------------------------------------------------------------------------
(* Combat *)

RECURSIVE InsertBeforeEqual(_, _)
\* an insertion that puts x ahead of the items whose key equals x's
InsertBeforeEqual(sorted, x) ==
    IF sorted = <<>> THEN <<x>>
    ELSE IF Head(sorted)[1] > x[1]
           THEN <<Head(sorted)>> \o InsertBeforeEqual(Tail(sorted), x)
           ELSE <<x>> \o sorted

RECURSIVE InsertDescending(_, _)
\* where list.sort(key=..., reverse=True) puts x: behind every item whose key is
\* at least x's (the sort is stable, also when reversed)
InsertDescending(sorted, x) ==
    IF sorted = <<>> THEN <<x>>
    ELSE IF Head(sorted)[1] >= x[1]
           THEN <<Head(sorted)>> \o InsertDescending(Tail(sorted), x)
           ELSE <<x>> \o sorted

RECURSIVE SortDescending(_, _)
\* initiatives.sort(key=lambda x: x[0], reverse=True), item by item
SortDescending(sorted, rest) ==
    IF rest = <<>> THEN sorted
    ELSE SortDescending(InsertDescending(sorted, Head(rest)), Tail(rest))

\* Combat.roll_initiative, rolls[i] the d20 of combatants[i]
RollInitiative(rolls) ==
    /\ pc = "idle"
    /\ IF \A i \in 1..Len(combatants) : HasStat(combatants[i], "DEX")
         THEN LET initiatives == [i \in 1..Len(combatants) |->
                                    <<rolls[i] + get_modifier(combatants[i], "DEX"),
                                      combatants[i]>>]
                  sorted == SortDescending(<<>>, initiatives)
              IN  /\ initiative_order' = [i \in 1..Len(sorted) |-> sorted[i][2]]
                  /\ ret' = [Ret("roll_initiative", "-", "-", "-", 0, 0, 0, "ok")
                                EXCEPT !.rolls = rolls]
         ELSE /\ initiative_order' = initiative_order
              /\ ret' = Ret("roll_initiative", "-", "-", "-", 0, 0, 0, "KeyError")
    /\ UNCHANGED <<turn, race, stats, hp, max_hp, weapon, level, experience,
                   experience_to_next_level, spell_slots, max_spell_slots,
                   combatants, round, pc, call, applied>>

\* a to-hit test that a total equal to the armor class fails
HitsStrictly(attack_roll, ac) == attack_roll > ac

\* attack's test of the to-hit total against the armor class
Hits(attack_roll, ac) == attack_roll >= ac

\* damage = max(1, weapon_damage + STR modifier + damage_bonus)
AttackDamage(weapon_damage, str_modifier, damage_bonus) ==
    Max(1, weapon_damage + str_modifier + damage_bonus)

\* an attack whose floor of 1 and take_damage also run on a miss
AttackFlooredOnMiss(attacker, defender, d20, weapon_damage) ==
    /\ pc = "idle"
    /\ attacker # defender
    /\ HasStat(attacker, "STR")
    /\ weapon[attacker] # NoWeapon
    /\ IF Hits(d20 + get_modifier(attacker, "STR"), armor_class[defender])
         THEN LET w == WEAPONS[weapon[attacker]]
                  damage == Max(1, weapon_damage + get_modifier(attacker, "STR")
                                   + w.damage_bonus)
              IN  /\ weapon_damage \in w.damage_count..(w.damage_dice * w.damage_count)
                  /\ hp' = [hp EXCEPT ![defender] = Max(0, @ - damage)]
                  /\ ret' = Ret("attack", attacker, defender, weapon[attacker], d20,
                                weapon_damage, damage, "ok")
         ELSE /\ weapon_damage = 0
              /\ hp' = [hp EXCEPT ![defender] = Max(0, @ - 1)]
              /\ ret' = Ret("attack", attacker, defender, "-", d20, 0, 0, "ok")
    /\ UNCHANGED <<turn, race, stats, max_hp, weapon, level, experience,
                   experience_to_next_level, spell_slots, max_spell_slots,
                   initiative_order, combatants, round, pc, call, applied>>

\* Combat.attack(attacker, defender) with the to-hit die d20 and the weapon dice
\* summing to weapon_damage
Attack(attacker, defender, d20, weapon_damage) ==
    /\ pc = "idle"
    /\ attacker # defender
    /\ IF ~HasStat(attacker, "STR")
         THEN /\ weapon_damage = 0
              /\ hp' = hp
              /\ ret' = Ret("attack", attacker, defender, "-", d20, 0, 0, "KeyError")
         ELSE IF ~Hits(d20 + get_modifier(attacker, "STR"), armor_class[defender])
         THEN /\ weapon_damage = 0
              /\ hp' = hp
              /\ ret' = Ret("attack", attacker, defender, "-", d20, 0, 0, "ok")
         ELSE IF weapon[attacker] = NoWeapon
         THEN /\ weapon_damage = 0
              /\ hp' = hp
              /\ ret' = Ret("attack", attacker, defender, "-", d20, 0, 0, "AttributeError")
         ELSE LET w == WEAPONS[weapon[attacker]]
                  damage == AttackDamage(weapon_damage, get_modifier(attacker, "STR"),
                                         w.damage_bonus)
              IN  /\ weapon_damage \in w.damage_count..(w.damage_dice * w.damage_count)
                  /\ hp' = [hp EXCEPT ![defender] = DamagedHp(@, damage)]
                  /\ ret' = Ret("attack", attacker, defender, weapon[attacker], d20,
                                weapon_damage, damage, "ok")
    /\ UNCHANGED <<turn, race, stats, max_hp, weapon, level, experience,
                   experience_to_next_level, spell_slots, max_spell_slots,
                   initiative_order, combatants, round, pc, call, applied>>

\* alive = [c for c in self.combatants if c.is_alive()]
AliveCombatants == SelectSeq(combatants, is_alive)

\* a test that combat is over only when nobody is alive
CombatOverWhenNoneAlive(alive) == Len(alive) < 1

\* len(alive_combatants) <= 1
CombatOver(alive) == Len(alive) <= 1

\* get_winner's None
NoWinner == "None"

\* a winner only when several are alive
WinnerWhenSeveral(alive) == IF Len(alive) > 1 THEN alive[1] ELSE NoWinner

\* a winner that is the first of the living, however many live
WinnerFirstAlive(alive) == IF Len(alive) >= 1 THEN alive[1] ELSE NoWinner

\* alive[0] if len(alive) == 1 else None
Winner(alive) == IF Len(alive) = 1 THEN alive[1] ELSE NoWinner

\* Combat.is_combat_over(); ret.value is 1 for True and 0 for False
IsCombatOver ==
    /\ pc = "idle"
    /\ ret' = Ret("is_combat_over", "-", "-", "-", 0, 0,
                  IF CombatOver(AliveCombatants) THEN 1 ELSE 0, "ok")
    /\ UNCHANGED <<turn, race, stats, hp, max_hp, weapon, level, experience,
                   experience_to_next_level, spell_slots, max_spell_slots,
                   initiative_order, combatants, round, pc, call, applied>>

\* Combat.get_winner(); ret.key is the winner
GetWinner ==
    /\ pc = "idle"
    /\ ret' = Ret("get_winner", "-", "-", Winner(AliveCombatants), 0, 0, 0, "ok")
    /\ UNCHANGED <<turn, race, stats, hp, max_hp, weapon, level, experience,
                   experience_to_next_level, spell_slots, max_spell_slots,
                   initiative_order, combatants, round, pc, call, applied>>

----------------------------------------------------------------------------
(* Spells *)

SPELLS ==
    [n \in {"Fire Bolt", "Ray of Frost", "Magic Missile", "Burning Hands",
            "Cure Wounds", "Scorching Ray", "Healing Word"} |->
        CASE n = "Fire Bolt" -> [heals |-> FALSE, level |-> 0, dice |-> 10, count |-> 1]
          [] n = "Ray of Frost" -> [heals |-> FALSE, level |-> 0, dice |-> 8, count |-> 1]
          [] n = "Magic Missile" -> [heals |-> FALSE, level |-> 1, dice |-> 4, count |-> 3]
          [] n = "Burning Hands" -> [heals |-> FALSE, level |-> 1, dice |-> 6, count |-> 3]
          [] n = "Cure Wounds" -> [heals |-> TRUE, level |-> 1, dice |-> 8, count |-> 1]
          [] n = "Scorching Ray" -> [heals |-> FALSE, level |-> 2, dice |-> 6, count |-> 2]
          [] n = "Healing Word" -> [heals |-> TRUE, level |-> 2, dice |-> 4, count |-> 2]]

\* a spell total without its floor of 1
SpellTotalUnfloored(dice, int_modifier) == dice + int_modifier

\* total = max(1, dice + INT modifier), of a damage and of a healing spell
SpellTotal(dice, int_modifier) == Max(1, dice + int_modifier)

\* healing clamped with max where min is meant
HealedHpOverMax(h, m, healing) == Max(m, h + healing)

\* healing without its clamp
HealedHpUnclamped(h, m, healing) == h + healing

\* target.hp = min(target.max_hp, target.hp + total_healing)
HealedHp(h, m, healing) == Min(m, h + healing)

\* DamageSpell.cast(caster, target), the dice summing to dice
CastDamage(spell, caster, target, dice) ==
    /\ pc = "idle"
    /\ ~SPELLS[spell].heals
    /\ IF ~HasStat(caster, "INT")
         THEN /\ hp' = hp
              /\ ret' = Ret("cast_damage", caster, target, spell, 0, dice, 0, "KeyError")
         ELSE LET total == SpellTotal(dice, get_modifier(caster, "INT")) IN
              /\ hp' = [hp EXCEPT ![target] = DamagedHp(@, total)]
              /\ ret' = Ret("cast_damage", caster, target, spell, 0, dice, total, "ok")
    /\ UNCHANGED <<turn, race, stats, max_hp, weapon, level, experience,
                   experience_to_next_level, spell_slots, max_spell_slots,
                   initiative_order, combatants, round, pc, call, applied>>

\* HealingSpell.cast(caster, target), the dice summing to dice
CastHealing(spell, caster, target, dice) ==
    /\ pc = "idle"
    /\ SPELLS[spell].heals
    /\ IF ~HasStat(caster, "INT")
         THEN /\ hp' = hp
              /\ ret' = Ret("cast_healing", caster, target, spell, 0, dice, 0, "KeyError")
         ELSE LET total == SpellTotal(dice, get_modifier(caster, "INT"))
                  healed == HealedHp(hp[target], max_hp[target], total)
              IN  /\ hp' = [hp EXCEPT ![target] = healed]
                  /\ ret' = Ret("cast_healing", caster, target, spell, 0, dice,
                                healed - hp[target], "ok")
    /\ UNCHANGED <<turn, race, stats, max_hp, weapon, level, experience,
                   experience_to_next_level, spell_slots, max_spell_slots,
                   initiative_order, combatants, round, pc, call, applied>>

\* can_cast(level): level is a tracked slot tier with a remaining count > 0
can_cast(slots, spell_level) == spell_level \in DOMAIN slots /\ slots[spell_level] > 0

\* a slot use that also takes a cantrip's slot
SlotsAfterUseAnyLevel(slots, spell_level) ==
    IF can_cast(slots, spell_level)
      THEN [slots EXCEPT ![spell_level] = @ - 1]
      ELSE slots

\* a slot use without the test of can_cast
SlotsAfterUseUnchecked(slots, spell_level) ==
    IF spell_level \in DOMAIN slots /\ spell_level > 0
      THEN [slots EXCEPT ![spell_level] = @ - 1]
      ELSE slots

\* the slot counts use_spell_slot(level) leaves
SlotsAfterUse(slots, spell_level) ==
    IF can_cast(slots, spell_level) /\ spell_level > 0
      THEN [slots EXCEPT ![spell_level] = @ - 1]
      ELSE slots

\* player.use_spell_slot(level); ret.value is 1 for true and 0 for false
UseSpellSlot(spell_level) ==
    /\ pc = "idle"
    /\ spell_slots' = SlotsAfterUse(spell_slots, spell_level)
    /\ ret' = Ret("use_spell_slot", Player, "-", "-", 0, spell_level,
                  IF can_cast(spell_slots, spell_level) THEN 1 ELSE 0, "ok")
    /\ UNCHANGED <<turn, race, stats, hp, max_hp, weapon, level, experience,
                   experience_to_next_level, max_spell_slots,
                   initiative_order, combatants, round, pc, call, applied>>

\* a turn that casts the spell whatever use_spell_slot answers
PlayerCastsUnchecked(spell, dice) ==
    LET spell_level == SPELLS[spell].level
        target == IF SPELLS[spell].heals THEN Player ELSE Goblin
        total == SpellTotal(dice, get_modifier(Player, "INT"))
    IN  /\ pc = "idle"
        /\ HasStat(Player, "INT")
        /\ spell_slots' = SlotsAfterUse(spell_slots, spell_level)
        /\ hp' = [hp EXCEPT ![target] =
                     IF SPELLS[spell].heals THEN HealedHp(@, max_hp[target], total)
                     ELSE DamagedHp(@, total)]
        /\ ret' = Ret("cast_spell", Player, target, spell, 0, dice, hp'[target] - hp[target],
                      IF can_cast(spell_slots, spell_level) THEN "ok" ELSE "no slot")
        /\ UNCHANGED <<turn, race, stats, max_hp, weapon, level, experience,
                       experience_to_next_level, max_spell_slots,
                       initiative_order, combatants, round, pc, call, applied>>

\* the player's turn of combat_encounter with choice 2: use_spell_slot(spell.level),
\* then spell.cast(player, target) on the player (healing) or the goblin (damage)
PlayerCasts(spell, dice) ==
    LET spell_level == SPELLS[spell].level
        target == IF SPELLS[spell].heals THEN Player ELSE Goblin
    IN  /\ pc = "idle"
        /\ spell_slots' = SlotsAfterUse(spell_slots, spell_level)
        /\ IF ~can_cast(spell_slots, spell_level)
             THEN /\ hp' = hp
                  /\ ret' = Ret("cast_spell", Player, target, spell, 0, dice, 0, "no slot")
             ELSE IF ~HasStat(Player, "INT")
             THEN /\ hp' = hp
                  /\ ret' = Ret("cast_spell", Player, target, spell, 0, dice, 0, "KeyError")
             ELSE LET total == SpellTotal(dice, get_modifier(Player, "INT"))
                      after == IF SPELLS[spell].heals
                                 THEN HealedHp(hp[target], max_hp[target], total)
                                 ELSE DamagedHp(hp[target], total)
                  IN  /\ hp' = [hp EXCEPT ![target] = after]
                      /\ ret' = Ret("cast_spell", Player, target, spell, 0, dice,
                                    IF SPELLS[spell].heals THEN after - hp[target] ELSE total,
                                    "ok")
        /\ UNCHANGED <<turn, race, stats, max_hp, weapon, level, experience,
                       experience_to_next_level, max_spell_slots,
                       initiative_order, combatants, round, pc, call, applied>>

\* a rest that restores the hp and forgets the spell slots
RestHpOnly ==
    /\ pc = "idle"
    /\ hp' = [hp EXCEPT ![Player] = max_hp[Player]]
    /\ ret' = Ret("rest", Player, "-", "-", 0, 0, 0, "ok")
    /\ UNCHANGED <<turn, race, stats, max_hp, weapon, level, experience,
                   experience_to_next_level, spell_slots, max_spell_slots,
                   initiative_order, combatants, round, pc, call, applied>>

\* player.rest(): hp back to max_hp, spell slots back to their maximum
Rest ==
    /\ pc = "idle"
    /\ hp' = [hp EXCEPT ![Player] = max_hp[Player]]
    /\ spell_slots' = max_spell_slots
    /\ ret' = Ret("rest", Player, "-", "-", 0, 0, 0, "ok")
    /\ UNCHANGED <<turn, race, stats, max_hp, weapon, level, experience,
                   experience_to_next_level, max_spell_slots,
                   initiative_order, combatants, round, pc, call, applied>>

----------------------------------------------------------------------------
(* Experience and leveling *)

\* a threshold that is rounded up
NextThresholdRoundedUp(threshold) == (threshold * 3 + 1) \div 2

\* int(experience_to_next_level * 1.5)
NextThreshold(threshold) == (threshold * 3) \div 2

\* a loop test that needs more than the threshold
ReachesThresholdStrictly(xp, threshold) == xp > threshold

\* the test of gain_experience's while loop
ReachesThreshold(xp, threshold) == xp >= threshold

\* hp_gain = max(1, hp_roll + CON modifier)
HpGain(hp_roll, con_modifier) == Max(1, hp_roll + con_modifier)

\* a level_up that keeps the experience it had
RemainingExperienceKept(xp, threshold) == xp

\* a level_up that resets the experience
RemainingExperienceReset(xp, threshold) == 0

\* the experience level_up leaves
RemainingExperience(xp, threshold) == xp - threshold

\* a level_up that heals to full
LeveledHpToFull(h, m, hp_gain) == m + hp_gain

\* self.hp += hp_gain
LeveledHp(h, m, hp_gain) == h + hp_gain

RECURSIVE LevelsCrossed(_, _)
\* how many successive thresholds an experience total spans
LevelsCrossed(xp, threshold) ==
    IF xp >= threshold THEN 1 + LevelsCrossed(xp - threshold, NextThreshold(threshold))
    ELSE 0

\* Character.gain_experience(amount), up to the test of its loop, for the awards
\* that leave the character at max_level or below
GainExperienceUpTo(amount, max_level) ==
    /\ pc = "idle"
    /\ level + LevelsCrossed(experience + amount, experience_to_next_level) <= max_level
    /\ experience' = experience + amount
    /\ call' = [amount |-> amount, experience |-> experience, level |-> level,
                threshold |-> experience_to_next_level]
    /\ pc' = IF ReachesThreshold(experience', experience_to_next_level)
               THEN "leveling" ELSE "idle"
    /\ ret' = Ret("gain_experience", Player, "-", "-", 0, 0, amount, "ok")
    /\ UNCHANGED <<turn, race, stats, hp, max_hp, weapon, level, experience_to_next_level,
                   spell_slots, max_spell_slots, initiative_order, combatants, round, applied>>

\* Character.gain_experience(amount)
GainExperience(amount) == GainExperienceUpTo(amount, MaxLevel)

\* Character.level_up, one pass of gain_experience's loop, with the d8 hp_roll
LevelUp(hp_roll) ==
    /\ pc = "leveling"
    /\ level' = level + 1
    /\ experience' = RemainingExperience(experience, experience_to_next_level)
    /\ experience_to_next_level' = NextThreshold(experience_to_next_level)
    /\ IF HasStat(Player, "CON")
         THEN LET hp_gain == HpGain(hp_roll, get_modifier(Player, "CON")) IN
              /\ max_hp' = [max_hp EXCEPT ![Player] = @ + hp_gain]
              /\ hp' = [hp EXCEPT ![Player] = LeveledHp(@, max_hp[Player], hp_gain)]
              /\ pc' = IF ReachesThreshold(experience', experience_to_next_level')
                         THEN "leveling" ELSE "idle"
              /\ ret' = Ret("level_up", Player, "-", "-", 0, hp_roll, hp_gain, "ok")
         ELSE /\ pc' = "idle"
              /\ ret' = Ret("level_up", Player, "-", "-", 0, hp_roll, 0, "KeyError")
              /\ UNCHANGED <<hp, max_hp>>
    /\ UNCHANGED <<turn, race, stats, weapon, spell_slots, max_spell_slots,
                   initiative_order, combatants, round, call, applied>>

\* the experience awards of the model
Awards == {0, 50, 100, 300}

----------------------------------------------------------------------------
(* The encounter of main.py: combat_encounter(player) *)

\* a loop that gives every combatant its turn, dead or alive
TakesTurnAlways(c) == TRUE

\* the for loop's test: a combatant that is not alive is skipped
TakesTurn(c) == is_alive(c)

\* where the for loop goes after a turn: the next combatant, or the while test
AfterTurnPc == IF turn < Len(initiative_order) THEN "turn" ELSE "while"
AfterTurn == IF turn < Len(initiative_order) THEN turn + 1 ELSE 0

\* main's choice 1 for a living, initialised player: create_goblin, Combat(player,
\* goblin) and roll_initiative with the d20 rolls
EncounterStart(rolls) ==
    /\ pc = "idle"
    /\ is_alive(Player)
    /\ DOMAIN stats[Player] = StatSet
    /\ stats' = [stats EXCEPT ![Goblin] = GoblinStats]
    /\ hp' = [hp EXCEPT ![Goblin] = GoblinHp]
    /\ max_hp' = [max_hp EXCEPT ![Goblin] = GoblinHp]
    /\ combatants' = <<Player, Goblin>>
    /\ round' = 0
    /\ LET initiatives == [i \in 1..2 |->
                              <<rolls[i] + Modifier(stats'[combatants'[i]]["DEX"]),
                                combatants'[i]>>]
           sorted == SortDescending(<<>>, initiatives)
       IN  initiative_order' = [i \in 1..Len(sorted) |-> sorted[i][2]]
    /\ pc' = "while"
    /\ turn' = 0
    /\ ret' = [Ret("roll_initiative", "-", "-", "-", 0, 0, 0, "ok") EXCEPT !.rolls = rolls]
    /\ UNCHANGED <<race, weapon, level, experience, experience_to_next_level,
                   spell_slots, max_spell_slots, call, applied>>

\* the while test finds combat not over: combat.round += 1 and the for loop starts
EncounterRound ==
    /\ pc = "while"
    /\ ~CombatOver(AliveCombatants)
    /\ round < MaxRounds
    /\ round' = round + 1
    /\ turn' = 1
    /\ pc' = "turn"
    /\ ret' = Ret("is_combat_over", "-", "-", "-", 0, 0, 0, "ok")
    /\ UNCHANGED <<race, stats, hp, max_hp, weapon, level, experience,
                   experience_to_next_level, spell_slots, max_spell_slots,
                   combatants, initiative_order, call, applied>>

\* the while test finds combat over: get_winner, and for the player as winner
\* player.gain_experience(goblin.xp_value), an attribute no Enemy has
EncounterEnd ==
    /\ pc = "while"
    /\ CombatOver(AliveCombatants)
    /\ IF Winner(AliveCombatants) = Player
         THEN /\ pc' = "crashed"
              /\ ret' = Ret("combat_encounter", "-", "-", Winner(AliveCombatants),
                            0, 0, 0, "AttributeError")
         ELSE /\ pc' = "idle"
              /\ ret' = Ret("combat_encounter", "-", "-", Winner(AliveCombatants),
                            0, 0, 0, "defeat")
    /\ turn' = 0
    /\ UNCHANGED <<race, stats, hp, max_hp, weapon, level, experience,
                   experience_to_next_level, spell_slots, max_spell_slots,
                   combatants, initiative_order, round, call, applied>>

\* the turn of a combatant that is not alive: continue
TurnSkipped ==
    /\ pc = "turn"
    /\ ~TakesTurn(initiative_order[turn])
    /\ pc' = AfterTurnPc
    /\ turn' = AfterTurn
    /\ ret' = Ret("skipped", initiative_order[turn], "-", "-", 0, 0, 0, "ok")
    /\ UNCHANGED <<race, stats, hp, max_hp, weapon, level, experience,
                   experience_to_next_level, spell_slots, max_spell_slots,
                   combatants, initiative_order, round, call, applied>>

\* the player's turn, choice 3: return False
PlayerFlees ==
    /\ pc = "turn"
    /\ initiative_order[turn] = Player
    /\ TakesTurn(Player)
    /\ pc' = "idle"
    /\ turn' = 0
    /\ ret' = Ret("combat_encounter", "-", "-", NoWinner, 0, 0, 0, "fled")
    /\ UNCHANGED <<race, stats, hp, max_hp, weapon, level, experience,
                   experience_to_next_level, spell_slots, max_spell_slots,
                   combatants, initiative_order, round, call, applied>>

\* the player's turn, choice 1: combat.attack(player, goblin)
PlayerAttacks(d20, weapon_damage) ==
    /\ pc = "turn"
    /\ initiative_order[turn] = Player
    /\ TakesTurn(Player)
    /\ IF Hits(d20 + get_modifier(Player, "STR"), armor_class[Goblin])
         THEN LET w == WEAPONS[weapon[Player]]
                  damage == AttackDamage(weapon_damage, get_modifier(Player, "STR"),
                                         w.damage_bonus)
              IN  /\ weapon_damage \in w.damage_count..(w.damage_dice * w.damage_count)
                  /\ hp' = [hp EXCEPT ![Goblin] = DamagedHp(@, damage)]
                  /\ ret' = Ret("attack", Player, Goblin, weapon[Player], d20,
                                weapon_damage, damage, "ok")
         ELSE /\ weapon_damage = 0
              /\ hp' = hp
              /\ ret' = Ret("attack", Player, Goblin, "-", d20, 0, 0, "ok")
    /\ pc' = AfterTurnPc
    /\ turn' = AfterTurn
    /\ UNCHANGED <<race, stats, max_hp, weapon, level, experience,
                   experience_to_next_level, spell_slots, max_spell_slots,
                   combatants, initiative_order, round, call, applied>>

\* the player's turn, choice 2: use_spell_slot(spell.level), then spell.cast on
\* the player (healing) or the goblin (damage); without a slot the turn is lost
PlayerCastsTurn(spell, dice) ==
    LET spell_level == SPELLS[spell].level
        target == IF SPELLS[spell].heals THEN Player ELSE Goblin
    IN  /\ pc = "turn"
        /\ initiative_order[turn] = Player
        /\ TakesTurn(Player)
        /\ spell_slots' = SlotsAfterUse(spell_slots, spell_level)
        /\ IF ~can_cast(spell_slots, spell_level)
             THEN /\ hp' = hp
                  /\ ret' = Ret("cast_spell", Player, target, spell, 0, dice, 0, "no slot")
             ELSE LET total == SpellTotal(dice, get_modifier(Player, "INT"))
                      after == IF SPELLS[spell].heals
                                 THEN HealedHp(hp[target], max_hp[target], total)
                                 ELSE DamagedHp(hp[target], total)
                  IN  /\ hp' = [hp EXCEPT ![target] = after]
                      /\ ret' = Ret("cast_spell", Player, target, spell, 0, dice,
                                    IF SPELLS[spell].heals THEN after - hp[target] ELSE total,
                                    "ok")
        /\ pc' = AfterTurnPc
        /\ turn' = AfterTurn
        /\ UNCHANGED <<race, stats, max_hp, weapon, level, experience,
                       experience_to_next_level, max_spell_slots,
                       combatants, initiative_order, round, call, applied>>

\* the enemy's turn: combat.attack(combatant, player); a hit reads the weapon that
\* no Enemy has, and the AttributeError ends the program
EnemyAttacks(d20, weapon_damage) ==
    LET enemy == initiative_order[turn] IN
    /\ pc = "turn"
    /\ enemy # Player
    /\ TakesTurn(enemy)
    /\ IF ~Hits(d20 + get_modifier(enemy, "STR"), armor_class[Player])
         THEN /\ weapon_damage = 0
              /\ hp' = hp
              /\ ret' = Ret("attack", enemy, Player, "-", d20, 0, 0, "ok")
              /\ pc' = AfterTurnPc
              /\ turn' = AfterTurn
         ELSE IF weapon[enemy] = NoWeapon
         THEN /\ weapon_damage = 0
              /\ hp' = hp
              /\ ret' = Ret("attack", enemy, Player, "-", d20, 0, 0, "AttributeError")
              /\ pc' = "crashed"
              /\ turn' = turn
         ELSE LET w == WEAPONS[weapon[enemy]]
                  damage == AttackDamage(weapon_damage, get_modifier(enemy, "STR"),
                                         w.damage_bonus)
              IN  /\ weapon_damage \in w.damage_count..(w.damage_dice * w.damage_count)
                  /\ hp' = [hp EXCEPT ![Player] = DamagedHp(@, damage)]
                  /\ ret' = Ret("attack", enemy, Player, weapon[enemy], d20,
                                weapon_damage, damage, "ok")
                  /\ pc' = IF is_alive(Player)' THEN AfterTurnPc ELSE "idle"
                  /\ turn' = IF is_alive(Player)' THEN AfterTurn ELSE 0
    /\ UNCHANGED <<race, stats, max_hp, weapon, level, experience,
                   experience_to_next_level, spell_slots, max_spell_slots,
                   combatants, initiative_order, round, call, applied>>

----------------------------------------------------------------------------
(* Specifications *)

\* Any sequence of initialize_stats, apply_racial_bonuses, attack, the two casts
\* (by the player, as in main.py), gain_experience and rest.
Next ==
    \/ InitializeStats
    \/ ApplyRacialBonuses
    \/ \E a \in Registered, d \in Registered, d20 \in Roll(20, 1, MissAndHit),
          wd \in {0} \cup High :
            Attack(a, d, d20, wd)
    \/ \E target \in Registered :
          \E dice \in Roll(SPELLS["Ray of Frost"].dice, SPELLS["Ray of Frost"].count, High) :
            CastDamage("Ray of Frost", Player, target, dice)
    \/ \E target \in Registered :
          \E dice \in Roll(SPELLS["Cure Wounds"].dice, SPELLS["Cure Wounds"].count, High) :
            CastHealing("Cure Wounds", Player, target, dice)
    \/ \E amount \in {100} : GainExperience(amount)
    \/ \E hp_roll \in Roll(8, 1, High) : LevelUp(hp_roll)
    \/ Rest

Spec == Init /\ [][Next]_vars

\* Stat initialisation, modifier lookups and damage on the registered combatants.
NextEntity ==
    \/ RollStats
    \/ InitializeStats
    \/ ApplyRacialBonuses
    \/ \E c \in Registered, stat \in StatSet : GetModifier(c, stat)
    \/ \E c \in Registered, damage \in 0..MaxDamage : TakeDamage(c, damage)

SpecEntity == Init /\ [][NextEntity]_vars

\* Attacks between the registered combatants, with the weapons of choose_weapon.
NextCombat ==
    \/ InitializeStats
    \/ \E w \in EquipChoices : EquipWeapon(w)
    \/ \E a \in Registered, d \in Registered, d20 \in Roll(20, 1, Boundaries),
          wd \in {0} \cup WeaponSums :
            Attack(a, d, d20, wd)

SpecCombat == Init /\ [][NextCombat]_vars

\* Combat(player, goblin, goblin2)
InitThree == Constructed(<<Player, Goblin, Goblin2>>)

\* Initiative rolls among three combatants.
NextInitiative ==
    \/ InitializeStats
    \/ \E rolls \in [1..Len(combatants) -> Roll(20, 1, InitiativeFaces)] :
          RollInitiative(rolls)

SpecInitiative == InitThree /\ [][NextInitiative]_vars

\* Experience gains of a character that is rolled or initialised, and wounded.
NextLevel ==
    \/ RollStats
    \/ InitializeStats
    \/ \E damage \in LowAndHigh : TakeDamage(Player, damage)
    \/ \E amount \in Awards : GainExperience(amount)
    \/ \E hp_roll \in Roll(8, 1, LowAndHigh) : LevelUp(hp_roll)

SpecLevel == Init /\ [][NextLevel]_vars

\* the spell levels whose slots are tracked
SlotLevels == 0..MaxSlotLevel

\* a character with its spell slots, all of them unused
InitSlots ==
    \E max_slots \in [SlotLevels -> {0, MaxSlots}] :
        Built(<<Player, Goblin>>, max_slots, max_slots)

\* a caster of one race (the race plays no part in slots and casts)
InitCast == InitSlots /\ race = "Elf"

\* Slot uses, rests and level-ups of a character that is wounded now and then.
NextSlots ==
    \/ InitializeStats
    \/ \E damage \in High : TakeDamage(Player, damage)
    \/ \E spell_level \in 0..(MaxSlotLevel + 1) : UseSpellSlot(spell_level)
    \/ Rest
    \/ \E amount \in {100} : GainExperience(amount)
    \/ \E hp_roll \in Roll(8, 1, High) : LevelUp(hp_roll)

SpecSlots == InitCast /\ [][NextSlots]_vars

\* the spells of the model: a cantrip, and a damage and a healing spell with slots
KnownSpells == {"Ray of Frost", "Cure Wounds", "Scorching Ray"}

\* Spell casts by the player, directly and through the player's turn, with
\* rolled stats (INT 3 and INT 10).
NextCast ==
    \/ RollStats
    \/ \E damage \in High : TakeDamage(Player, damage)
    \/ \E spell_level \in {1, MaxSlotLevel + 1} : UseSpellSlot(spell_level)
    \/ \E spell \in KnownSpells :
          \E dice \in Roll(SPELLS[spell].dice, SPELLS[spell].count, LowAndHigh) :
            PlayerCasts(spell, dice)
    \/ \E target \in Registered :
          \E dice \in Roll(SPELLS["Ray of Frost"].dice, SPELLS["Ray of Frost"].count,
                            LowAndHigh) :
            CastDamage("Ray of Frost", Player, target, dice)
    \/ \E target \in Registered :
          \E dice \in Roll(SPELLS["Cure Wounds"].dice, SPELLS["Cure Wounds"].count,
                            LowAndHigh) :
            CastHealing("Cure Wounds", Player, target, dice)

SpecCast == InitCast /\ [][NextCast]_vars

\* The outcome of a combat of three whose combatants are damaged in any order.
NextOutcome ==
    \/ InitializeStats
    \/ \E c \in Registered, damage \in LowAndHigh : TakeDamage(c, damage)
    \/ IsCombatOver
    \/ GetWinner

SpecOutcome == InitThree /\ [][NextOutcome]_vars

\* Two characters of one race that roll and take their bonuses in any order.
NextRaces ==
    \/ \E ch \in Characters : RollStatsOf(ch)
    \/ \E ch \in Characters : ApplyRacialBonusesOf(ch)
    \/ \E ch \in Characters : InitializeStatsOf(ch)

SpecRaces == Init /\ [][NextRaces]_vars

\* Every action that looks a modifier up, on a character whose stats are empty,
\* set as the tests set them, or initialised.
NextLookup ==
    \/ \E s \in TestStats : SetStats(Player, s)
    \/ InitializeStats
    \/ ApplyRacialBonusesOf(Player)
    \/ \E stat \in {"CON", "CHA"} : GetModifier(Player, stat)
    \/ \E d20 \in Roll(20, 1, MissAndHit), wd \in {0} \cup High :
          Attack(Player, Goblin, d20, wd)
    \/ \E rolls \in [1..Len(combatants) -> Roll(20, 1, {10})] : RollInitiative(rolls)
    \/ \E dice \in Roll(SPELLS["Ray of Frost"].dice, SPELLS["Ray of Frost"].count, High) :
          CastDamage("Ray of Frost", Player, Goblin, dice)
    \/ \E dice \in Roll(SPELLS["Cure Wounds"].dice, SPELLS["Cure Wounds"].count, High) :
          CastHealing("Cure Wounds", Player, Player, dice)
    \/ \E amount \in {100} : GainExperience(amount)
    \/ \E hp_roll \in Roll(8, 1, High) : LevelUp(hp_roll)

SpecLookup == Init /\ [][NextLookup]_vars

\* awards below, at and far above the first threshold
ThresholdAwards == {0, 99, 100, 1000}

\* Experience gains up to MaxThresholdLevel.
NextExperience ==
    \/ InitializeStats
    \/ \E amount \in ThresholdAwards : GainExperienceUpTo(amount, MaxThresholdLevel)
    \/ \E hp_roll \in Roll(8, 1, High) : LevelUp(hp_roll)

SpecExperience == Init /\ [][NextExperience]_vars

\* gain_experience's loop keeps running: a level_up that is due is taken
SpecExperienceFair ==
    SpecExperience /\ WF_vars(\E hp_roll \in Roll(8, 1, High) : LevelUp(hp_roll))

\* the d20 faces of an encounter's initiative: either combatant may go first
EncounterFaces == {5, 15}

\* Encounters of an initialised player with a goblin, one after the other.
NextEncounter ==
    \/ InitializeStats
    \/ \E rolls \in [1..2 -> Roll(20, 1, EncounterFaces)] : EncounterStart(rolls)
    \/ EncounterRound
    \/ EncounterEnd
    \/ TurnSkipped
    \/ PlayerFlees
    \/ \E d20 \in Roll(20, 1, MissAndHit), wd \in {0} \cup WeaponSums :
          PlayerAttacks(d20, wd)
    \/ \E spell \in KnownSpells :
          \E dice \in Roll(SPELLS[spell].dice, SPELLS[spell].count, High) :
            PlayerCastsTurn(spell, dice)
    \/ \E d20 \in Roll(20, 1, MissAndHit) : EnemyAttacks(d20, 0)

SpecEncounter == InitCast /\ [][NextEncounter]_vars

----------------------------------------------------------------------------
(* What a call leaves alone. *)

health == <<hp, max_hp>>
character == <<race, stats, weapon, level, experience, experience_to_next_level,
               spell_slots, max_spell_slots>>
combat == <<combatants, initiative_order, round>>

----------------------------------------------------------------------------
(* C1.  After any sequence of initialize_stats, apply_racial_bonuses, attack, *)
(* DamageSpell.cast, HealingSpell.cast, gain_experience/level_up and rest,    *)
(* every combatant has 0 <= hp <= max_hp.                                     *)
C1_HpWithinBounds == \A c \in Entities : 0 <= hp[c] /\ hp[c] <= max_hp[c]

\* the player has leveled up and is wounded but alive, and the goblin is dead
C1_Witness ==
    /\ level >= 2
    /\ 0 < hp[Player] /\ hp[Player] < max_hp[Player]
    /\ hp[Goblin] = 0

(* C2.  get_modifier(stat) returns floor((s - 10) / 2) of the stored score s, *)
(* rounding toward negative infinity (9 -> -1, 8 -> -1, 3 -> -4, 10 -> 0,     *)
(* 16 -> +3), and changes no state.                                           *)
C2_GetModifierFloors ==
    [][ret'.op = "get_modifier" /\ ret'.status = "ok" =>
          LET s == stats[ret'.a][ret'.key]
              m == ret'.value
          IN  /\ 2 * m <= s - 10 /\ s - 10 < 2 * m + 2
              /\ (s = 9 => m = -1) /\ (s = 8 => m = -1) /\ (s = 3 => m = -4)
              /\ (s = 10 => m = 0) /\ (s = 16 => m = 3)
              /\ UNCHANGED <<health, character, combat>>]_vars

\* a lookup of an odd score below 10 has returned
C2_Witness ==
    /\ ret.op = "get_modifier" /\ ret.status = "ok"
    /\ stats[ret.a][ret.key] = 9 /\ ret.value = -1

(* C3.  For every damage >= 0, take_damage(damage) sets hp to                 *)
(* max(0, hp - damage): hp never increases, and it is exactly 0 when the      *)
(* damage is at least the current hp.                                         *)
C3_TakeDamageFloorsAtZero ==
    [][ret'.op = "take_damage" =>
          LET c == ret'.a
              damage == ret'.value
          IN  /\ damage >= 0
              /\ hp'[c] = (IF hp[c] - damage > 0 THEN hp[c] - damage ELSE 0)
              /\ hp'[c] <= hp[c]
              /\ (damage >= hp[c] => hp'[c] = 0)
              /\ \A o \in Entities \ {c} : hp'[o] = hp[o]]_vars

\* the goblin, which has at most 7 hp, has taken 8 damage
C3_Witness ==
    /\ ret.op = "take_damage" /\ ret.a = Goblin /\ ret.value > GoblinHp
    /\ hp[Goblin] = 0

----------------------------------------------------------------------------
\* the to-hit total of the attack ret records
ToHit(r) == r.d20 + Modifier(stats[r.a]["STR"])

(* C4.  attack(attacker, defender) is a hit if and only if d20 + the          *)
(* attacker's STR modifier >= defender.armor_class; a total equal to the      *)
(* armor class is a hit.  A miss is the call returning 0; an attacker that    *)
(* has a weapon hits exactly when the call returns a damage of at least 1.    *)
C4_HitIffTotalMeetsArmorClass ==
    ret.op = "attack" /\ ret.status # "KeyError" =>
        LET missed == ret.status = "ok" /\ ret.value = 0 IN
        /\ missed <=> ToHit(ret) < armor_class[ret.b]
        /\ weapon[ret.a] # NoWeapon =>
              (ret.status = "ok" /\ ret.value >= 1 <=> ToHit(ret) >= armor_class[ret.b])

\* a total exactly equal to the armor class has dealt damage
C4_Witness ==
    /\ ret.op = "attack" /\ ret.status = "ok"
    /\ ToHit(ret) = armor_class[ret.b]
    /\ ret.value >= 1

(* C5.  On a hit, attack returns damage = max(1, weapon dice + STR modifier + *)
(* damage_bonus), so at least 1 and whatever the to-hit die, and sets the     *)
(* defender's hp to max(0, hp - damage).                                      *)
C5_HitDealsFlooredDamage ==
    [][ret'.op = "attack" /\ ret'.status # "KeyError"
         /\ ToHit(ret') >= armor_class[ret'.b] =>
          /\ ret'.status = "ok"
          /\ LET raw == ret'.dice + Modifier(stats[ret'.a]["STR"])
                          + WEAPONS[weapon[ret'.a]].damage_bonus
                  damage == IF raw > 1 THEN raw ELSE 1
              IN  /\ ret'.value = damage
                  /\ ret'.value >= 1
                  /\ hp'[ret'.b] = (IF hp[ret'.b] - damage > 0
                                     THEN hp[ret'.b] - damage ELSE 0)]_vars

(* C5 for the attackers that have a weapon attribute (the Character).         *)
C5_ArmedHitDealsFlooredDamage ==
    [][ret'.op = "attack" /\ ret'.status # "KeyError" /\ weapon[ret'.a] # NoWeapon
         /\ ToHit(ret') >= armor_class[ret'.b] =>
          /\ ret'.status = "ok"
          /\ LET raw == ret'.dice + Modifier(stats[ret'.a]["STR"])
                          + WEAPONS[weapon[ret'.a]].damage_bonus
                  damage == IF raw > 1 THEN raw ELSE 1
              IN  /\ ret'.value = damage
                  /\ ret'.value >= 1
                  /\ hp'[ret'.b] = (IF hp[ret'.b] - damage > 0
                                     THEN hp[ret'.b] - damage ELSE 0)]_vars

(* C6.  On a miss, attack returns 0 and changes no state: hp, max_hp, stats   *)
(* and weapon of every combatant, and the combat's round and                  *)
(* initiative_order, are unchanged.                                           *)
C6_MissChangesNothing ==
    [][ret'.op = "attack" /\ ret'.status # "KeyError"
         /\ ToHit(ret') < armor_class[ret'.b] =>
          /\ ret'.status = "ok" /\ ret'.value = 0
          /\ UNCHANGED <<health, character, combat>>]_vars

\* an initialised, armed attacker has missed a living defender
C6_Witness ==
    /\ ret.op = "attack" /\ ret.status = "ok" /\ ret.value = 0
    /\ ret.a = Player /\ hp[ret.b] > 0
    /\ ToHit(ret) = armor_class[ret.b] - 1

\* the place of combatant c in the constructor's order
InputPlace(c) == CHOOSE i \in 1..Len(combatants) : combatants[i] = c

\* the initiative of combatant c in the roll ret records
Initiative(c) == ret.rolls[InputPlace(c)] + Modifier(stats[c]["DEX"])

(* C7.  roll_initiative stores a permutation of all registered combatants,    *)
(* ordered by d20 + DEX modifier descending; combatants with equal            *)
(* initiative keep the constructor's input order.                             *)
C7_InitiativeSortedAndStable ==
    ret.op = "roll_initiative" /\ ret.status = "ok" =>
        /\ Len(initiative_order) = Len(combatants)
        /\ \A c \in Registered :
              Cardinality({i \in 1..Len(initiative_order) : initiative_order[i] = c}) = 1
        /\ \A i \in 1..Len(initiative_order), j \in 1..Len(initiative_order) :
              i < j =>
                LET first == initiative_order[i]
                    second == initiative_order[j]
                IN  /\ Initiative(first) >= Initiative(second)
                    /\ Initiative(first) = Initiative(second) =>
                          InputPlace(first) < InputPlace(second)

\* all three combatants have the same initiative, from different dice, and a
\* later combatant of the input goes first in another roll
C7_Witness ==
    /\ ret.op = "roll_initiative" /\ ret.status = "ok"
    /\ Initiative(Player) = Initiative(Goblin)
    /\ Initiative(Goblin) = Initiative(Goblin2)
    /\ ret.rolls[1] # ret.rolls[2]
    /\ initiative_order = combatants

RECURSIVE ThresholdsSum(_, _)
\* the sum of k successive thresholds from threshold on
ThresholdsSum(k, threshold) ==
    IF k = 0 THEN 0
    ELSE threshold + ThresholdsSum(k - 1, (threshold * 3) \div 2)

\* gain_experience has returned
Returned ==
    /\ pc = "idle"
    /\ \/ ret.op = "gain_experience"
       \/ ret.op = "level_up" /\ ret.status = "ok"

(* C8.  A gain_experience(amount) whose resulting experience spans k          *)
(* successive thresholds performs exactly k level_ups, and the remaining      *)
(* experience is the prior experience plus amount minus the sum of the k      *)
(* thresholds crossed; 300 XP at level 1 with threshold 100 gives level 3     *)
(* with 50 XP left.                                                           *)
C8_LevelsPerThresholdCrossed ==
    Returned =>
        LET total == call.experience + call.amount
            k == level - call.level
        IN  /\ k >= 0
            /\ ThresholdsSum(k, call.threshold) <= total
            /\ total < ThresholdsSum(k + 1, call.threshold)
            /\ experience = total - ThresholdsSum(k, call.threshold)
            /\ call.level = 1 /\ call.experience = 0 /\ call.amount = 300 =>
                  level = 3 /\ experience = 50
            /\ call.level = 1 /\ call.experience = 0 /\ call.amount = 100 =>
                  level = 2 /\ experience = 0 /\ experience_to_next_level = 150

\* 300 XP at level 1 has crossed two thresholds
C8_Witness ==
    /\ Returned
    /\ call.level = 1 /\ call.experience = 0 /\ call.amount = 300
    /\ level = 3 /\ experience = 50

C10_LevelUpSetsSpellSlots ==
    ret.op = "level_up" /\ ret.status = "ok" =>
        /\ level >= 2 => 1 \in DOMAIN max_spell_slots /\ max_spell_slots[1] = 3
        /\ level >= 3 => 2 \in DOMAIN max_spell_slots /\ max_spell_slots[2] = 2
        /\ spell_slots = max_spell_slots

(* C11.  rest() on a character in any state sets hp to max_hp and every      *)
(* spell level's remaining slots to its maximum, and leaves level,            *)
(* experience, threshold, stats, max_hp and weapon unchanged.                 *)
C11_RestRestoresHpAndSlots ==
    [][ret'.op = "rest" =>
          /\ hp'[Player] = max_hp[Player]
          /\ DOMAIN spell_slots' = DOMAIN max_spell_slots
          /\ \A l \in DOMAIN max_spell_slots : spell_slots'[l] = max_spell_slots[l]
          /\ UNCHANGED <<level, experience, experience_to_next_level, stats,
                         max_hp, weapon>>]_vars

\* a wounded character with a used slot has rested
C11_Witness ==
    /\ ret.op = "rest"
    /\ hp[Player] = max_hp[Player] /\ max_hp[Player] > 0
    /\ level >= 2
    /\ 1 \in DOMAIN spell_slots /\ spell_slots[1] = MaxSlots

\* the level of the spell the turn's cast names
CastLevel(r) == SPELLS[r.key].level

(* C12.  Casting a spell of level L when the caster has no remaining level-L  *)
(* slot is rejected without effect: use_spell_slot(L) returns false, no slot  *)
(* count changes, and no combatant's hp changes.                              *)
C12_CastWithoutSlotRejected ==
    [][/\ ret'.op = "use_spell_slot"
          /\ ~(ret'.dice \in DOMAIN spell_slots /\ spell_slots[ret'.dice] > 0) =>
               ret'.value = 0 /\ UNCHANGED <<health, character, combat>>
       /\ ret'.op = "cast_spell"
          /\ ~(CastLevel(ret') \in DOMAIN spell_slots /\ spell_slots[CastLevel(ret')] > 0) =>
               /\ ret'.status = "no slot" /\ ret'.value = 0
               /\ UNCHANGED <<health, character, combat>>]_vars

\* a level-1 healing cast by a wounded player without level-1 slots left was rejected
C12_Witness ==
    /\ ret.op = "cast_spell" /\ ret.status = "no slot"
    /\ ret.key = "Cure Wounds"
    /\ spell_slots[1] = 0 /\ max_spell_slots[1] > 0
    /\ HasStat(Player, "INT")
    /\ hp[Player] < max_hp[Player]

(* C13.  use_spell_slot(L) with at least one remaining level-L slot returns  *)
(* true and, for L > 0, decrements that level's count by exactly 1 and leaves *)
(* every other level's count unchanged; for L = 0 the count is never          *)
(* decremented.                                                               *)
C13_UseSpellSlotDecrementsOne ==
    [][(/\ ret'.op = "use_spell_slot"
        /\ ret'.dice \in DOMAIN spell_slots
        /\ spell_slots[ret'.dice] >= 1) =>
          /\ ret'.value = 1
          /\ DOMAIN spell_slots' = DOMAIN spell_slots
          /\ \A l \in DOMAIN spell_slots :
                spell_slots'[l] = (IF l = ret'.dice /\ l > 0 THEN spell_slots[l] - 1
                                   ELSE spell_slots[l])
          /\ ret'.dice = 0 => spell_slots' = spell_slots]_vars

\* the last level-2 slot was used while level-1 and cantrip slots stay full
C13_Witness ==
    /\ ret.op = "use_spell_slot" /\ ret.dice = 2 /\ ret.value = 1
    /\ spell_slots[2] = 0 /\ max_spell_slots[2] = MaxSlots
    /\ spell_slots[1] = MaxSlots
    /\ spell_slots[0] = MaxSlots

(* C14.  After any sequence of use_spell_slot, level_up and rest, for every   *)
(* tracked spell level l: 0 <= spell_slots[l] <= max_spell_slots[l].          *)
C14_SlotsWithinBounds ==
    /\ DOMAIN spell_slots = DOMAIN max_spell_slots
    /\ \A l \in DOMAIN spell_slots :
          0 <= spell_slots[l] /\ spell_slots[l] <= max_spell_slots[l]

\* after a level_up, a use was refused on an emptied level that has slots
C14_Witness ==
    /\ level >= 2
    /\ ret.op = "use_spell_slot" /\ ret.dice = 1 /\ ret.value = 0
    /\ spell_slots[1] = 0 /\ max_spell_slots[1] = MaxSlots

\* ret records a completed cast of a healing spell, direct or in the player's turn
HealingCast(r) ==
    /\ r.op \in {"cast_healing", "cast_spell"}
    /\ r.status = "ok"
    /\ SPELLS[r.key].heals

\* ret records a completed cast of a damage spell, direct or in the player's turn
DamageCast(r) ==
    /\ r.op \in {"cast_damage", "cast_spell"}
    /\ r.status = "ok"
    /\ ~SPELLS[r.key].heals

\* the rolled total of the cast ret records: dice + the caster's INT modifier
RolledTotal(r) == r.dice + Modifier(stats[r.a]["INT"])

(* C15.  HealingSpell.cast sets the target's hp to min(max_hp, hp + max(1,    *)
(* dice sum + caster's INT modifier)), so hp never exceeds max_hp, and the    *)
(* amount it reports is new hp - old hp, not the rolled amount.               *)
C15_HealingClampedAndReported ==
    [][HealingCast(ret') =>
          LET healing == IF RolledTotal(ret') > 1 THEN RolledTotal(ret') ELSE 1
              target == ret'.b
          IN  /\ hp'[target] = (IF hp[target] + healing < max_hp[target]
                                  THEN hp[target] + healing ELSE max_hp[target])
              /\ hp'[target] <= max_hp[target]
              /\ ret'.value = hp'[target] - hp[target]]_vars

\* a heal that the clamp cut: less was applied and reported than was rolled
C15_Witness ==
    /\ HealingCast(ret)
    /\ hp[ret.b] = max_hp[ret.b]
    /\ ret.value >= 1
    /\ ret.value < RolledTotal(ret)

(* C16.  DamageSpell.cast applies damage = max(1, dice sum + caster's INT     *)
(* modifier) through take_damage: at least 1 even with a strongly negative    *)
(* INT modifier, and the target's hp becomes max(0, hp - damage).             *)
C16_DamageSpellFlooredAtOne ==
    [][DamageCast(ret') =>
          LET damage == IF RolledTotal(ret') > 1 THEN RolledTotal(ret') ELSE 1
              target == ret'.b
          IN  /\ ret'.value = damage
              /\ ret'.value >= 1
              /\ hp'[target] = (IF hp[target] - damage > 0
                                  THEN hp[target] - damage ELSE 0)]_vars

\* a caster with INT 3 rolled 1: the total of -3 was raised to 1 damage
C16_Witness ==
    /\ DamageCast(ret)
    /\ RolledTotal(ret) < 0
    /\ ret.value = 1
    /\ hp[ret.b] = GoblinHp - 1

\* the registered combatants with hp > 0
Living == {c \in Registered : hp[c] > 0}

C18_WinnerIsUniqueSurvivor ==
    ret.op = "get_winner" =>
        /\ Cardinality(Living) = 1 => ret.key \in Living
        /\ Cardinality(Living) # 1 => ret.key = "None"
        /\ ret.key # "None" => Cardinality(Living) <= 1

\* two of three combatants are alive and there is no winner
C18_Witness ==
    /\ ret.op = "get_winner" /\ ret.key = "None"
    /\ Living = {Goblin, Goblin2}
    /\ max_hp[Player] > 0

(* C19.  After apply_racial_bonuses, and after initialize_stats, max_hp is   *)
(* base_hp + the CON modifier of the post-bonus CON score, and hp = max_hp.   *)
C19_MaxHpFromPostBonusCon ==
    ret.op \in {"apply_racial_bonuses", "initialize_stats"} /\ ret.status = "ok" =>
        LET con == stats[Player]["CON"]
            modifier == max_hp[Player] - PlayerBaseHp
        IN  /\ 2 * modifier <= con - 10
            /\ con - 10 < 2 * modifier + 2
            /\ hp[Player] = max_hp[Player]

\* a Dwarf's bonus took CON from 3 to 5 and max_hp from 6 to 7
C19_Witness ==
    /\ ret.op = "apply_racial_bonuses" /\ ret.status = "ok"
    /\ race = "Dwarf"
    /\ stats[Player]["CON"] = 5
    /\ max_hp[Player] = 7 /\ hp[Player] = 7

(* C20.  Applying a race's bonuses to a full six-stat mapping adds exactly:   *)
(* Human +1 to each of the six stats; Elf +2 to DEX; Dwarf +2 to CON;         *)
(* Halfling +2 to DEX and +1 to CHA; every other stat is left unchanged.      *)
C20_RaceBonusesExact ==
    [][(/\ ret'.op = "apply_racial_bonuses"
        /\ ret'.status = "ok"
        /\ DOMAIN stats[Player] = {"STR", "DEX", "CON", "INT", "WIS", "CHA"}) =>
          /\ DOMAIN stats'[Player] = DOMAIN stats[Player]
          /\ \A k \in DOMAIN stats[Player] :
                stats'[Player][k] - stats[Player][k] =
                    (CASE race = "Human" -> 1
                       [] race = "Elf" /\ k = "DEX" -> 2
                       [] race = "Dwarf" /\ k = "CON" -> 2
                       [] race = "Halfling" /\ k = "DEX" -> 2
                       [] race = "Halfling" /\ k = "CHA" -> 1
                       [] OTHER -> 0)
          /\ \A c \in Entities \ {Player} : stats'[c] = stats[c]]_vars

\* a Halfling's rolled DEX 9 and CHA 10 became 11 and 11
C20_Witness ==
    /\ ret.op = "apply_racial_bonuses" /\ ret.status = "ok"
    /\ race = "Halfling"
    /\ stats[Player]["DEX"] = 11 /\ stats[Player]["CHA"] = 11
    /\ stats[Player]["STR"] = 3

(* C21.  Applying racial bonuses to one character never changes another     *)
(* character's stats mapping, also when both use the same Race instance:      *)
(* each character's stats after initialization depend only on its own rolls   *)
(* and its own race.                                                          *)
C21_BonusesTouchOneCharacter ==
    [][ret'.op \in {"roll_stats", "apply_racial_bonuses", "initialize_stats"} =>
          /\ \A c \in Entities \ {ret'.a} :
                stats'[c] = stats[c] /\ hp'[c] = hp[c] /\ max_hp'[c] = max_hp[c]
          /\ ret'.op = "initialize_stats" =>
                \E rolled \in RolledStats :
                  \A k \in {"STR", "DEX", "CON", "INT", "WIS", "CHA"} :
                    stats'[ret'.a][k] - rolled[k] =
                        (CASE race = "Human" -> 1
                           [] race \in {"Elf", "Halfling"} /\ k = "DEX" -> 2
                           [] race = "Dwarf" /\ k = "CON" -> 2
                           [] race = "Halfling" /\ k = "CHA" -> 1
                           [] OTHER -> 0)]_vars

\* the second of two Elves took its bonus twice, the first once, from the same roll
C21_Witness ==
    /\ ret.op = "apply_racial_bonuses" /\ ret.status = "ok" /\ ret.a = Player2
    /\ race = "Elf"
    /\ "DEX" \in DOMAIN stats[Player]
    /\ stats[Player]["STR"] = 3 /\ stats[Player]["DEX"] = 11
    /\ stats[Player2]["STR"] = 3 /\ stats[Player2]["DEX"] = 13

(* C22.  Every combatant, Character and Enemy alike, has exactly one         *)
(* equipped weapon at every moment from construction on, so attack can        *)
(* always read the attacker's weapon; equip_weapon replaces it                *)
(* unconditionally.                                                           *)
C22_EveryCombatantArmed ==
    /\ \A c \in Registered : weapon[c] \in DOMAIN WEAPONS
    /\ ret.op = "attack" => ret.status # "AttributeError"
    /\ ret.op = "equip_weapon" => weapon[Player] = ret.key

(* C22 for the Character alone: it has a weapon of the table from            *)
(* construction on, and equip_weapon replaces it.                             *)
C22_CharacterArmed ==
    /\ weapon[Player] \in DOMAIN WEAPONS
    /\ ret.op = "equip_weapon" => weapon[Player] = ret.key

(* C23.  A modifier lookup, and any action that needs one (attack,           *)
(* roll_initiative, spell cast, apply_racial_bonuses, level_up), on a         *)
(* combatant whose stats lack the needed ability fails with a lookup error    *)
(* and leaves every combatant's hp, max_hp and stats unchanged.               *)
C23_LookupErrorChangesNothing ==
    [][ret'.status = "KeyError" => UNCHANGED <<hp, max_hp, stats>>]_vars

(* C23 for the actions other than apply_racial_bonuses.                       *)
C23_LookupErrorOutsideBonuses ==
    [][ret'.status = "KeyError" /\ ret'.op # "apply_racial_bonuses" =>
          UNCHANGED <<hp, max_hp, stats>>]_vars

(* C24.  The experience threshold starts at 100 and after each level_up is   *)
(* the integer truncation of 1.5 times its previous value (100, 150, 225,     *)
(* 337, 505, ...); it is always a positive integer and strictly increases     *)
(* with every level.                                                          *)
C24_ThresholdSequence ==
    [][/\ experience_to_next_level' > 0
       /\ level' <= 5 =>
             experience_to_next_level' = <<100, 150, 225, 337, 505>>[level']
       /\ level' # level =>
             /\ 2 * experience_to_next_level' <= 3 * experience_to_next_level
             /\ 3 * experience_to_next_level < 2 * experience_to_next_level' + 2
             /\ experience_to_next_level' > experience_to_next_level
       /\ level' = level => experience_to_next_level' = experience_to_next_level]_vars

\* the fifth level, whose threshold is the truncation of 505.5
C24_Witness ==
    /\ ret.op = "level_up" /\ ret.status = "ok"
    /\ level = 5
    /\ experience_to_next_level = 505

(* C29.  After every gain_experience(amount) with amount >= 0 returns,        *)
(* 0 <= experience < experience_to_next_level and level >= 1, and level       *)
(* never decreases across any sequence of calls.                              *)
C29_ExperienceBelowThreshold ==
    [][/\ Returned' => /\ 0 <= experience'
                       /\ experience' < experience_to_next_level'
                       /\ level' >= 1
       /\ level' >= level]_vars

\* an award of exactly the threshold has returned with no experience left
C29_Witness ==
    /\ Returned
    /\ call.amount = 100 /\ call.experience = 0 /\ call.threshold = 100
    /\ level = 2 /\ experience = 0

(* C30.  gain_experience(amount) terminates for every finite amount: each    *)
(* level_up strictly lowers experience by a positive threshold and strictly   *)
(* raises the threshold, so the leveling loop runs finitely many times.       *)
C30_GainExperienceTerminates ==
    /\ [][ret'.op = "level_up" =>
             /\ experience_to_next_level > 0
             /\ experience' = experience - experience_to_next_level
             /\ experience' >= 0
             /\ experience_to_next_level' > experience_to_next_level]_vars
    /\ (pc = "leveling") ~> (pc = "idle")

\* a call that leveled four times in a row has returned
C30_Witness ==
    /\ Returned
    /\ call.amount = 1000 /\ call.level = 1
    /\ level = 5

\* combat_encounter is inside its while loop
InLoop == pc \in {"while", "turn"}

(* C25.  The encounter loop terminates in a state where is_combat_over() is   *)
(* true: the loop is left only with combat over (or by fleeing), and under    *)
(* attacks alone each combatant's hp is non-increasing.                       *)
C25_LoopEndsWithCombatOver ==
    [][/\ InLoop /\ ~InLoop' /\ ret'.status # "fled" =>
             Cardinality({c \in {Player, Goblin} : hp'[c] > 0}) <= 1
       /\ InLoop /\ ret'.op = "attack" =>
             \A c \in {Player, Goblin} : hp'[c] <= hp[c]]_vars

(* C26.  During an encounter no combatant with hp = 0 ever attacks or casts:  *)
(* a combatant killed earlier in the same round has its turn skipped, so no   *)
(* action is resolved once is_combat_over() is true.                          *)
C26_DeadCombatantsSkipped ==
    [][pc = "turn" =>
          /\ ret'.op \in {"attack", "cast_spell"} =>
                /\ hp[ret'.a] > 0
                /\ Cardinality({c \in {Player, Goblin} : hp[c] > 0}) > 1
          /\ hp[initiative_order[turn]] = 0 =>
                /\ ret'.op = "skipped" /\ ret'.a = initiative_order[turn]
                /\ UNCHANGED <<health, character, combat>>]_vars

\* the goblin, killed by the player earlier in the first round, had its turn skipped
C26_Witness ==
    /\ ret.op = "skipped" /\ ret.a = Goblin
    /\ round = 1
    /\ initiative_order = <<Player, Goblin>>
    /\ hp[Goblin] = 0 /\ hp[Player] > 0

(* C27.  In a two-combatant encounter that starts with both alive, both at    *)
(* hp = 0 is unreachable, because each action lowers the hp of at most one    *)
(* combatant; whenever the loop ends with is_combat_over() true, get_winner() *)
(* returns the single survivor.                                               *)
C27_SingleSurvivorWins ==
    [][InLoop =>
          /\ Cardinality({c \in {Player, Goblin} : hp'[c] < hp[c]}) <= 1
          /\ ~(hp'[Player] = 0 /\ hp'[Goblin] = 0)
          /\ ret'.op = "combat_encounter" /\ ret'.status # "fled" =>
                /\ Cardinality({c \in {Player, Goblin} : hp'[c] > 0}) = 1
                /\ ret'.key \in {Player, Goblin}
                /\ hp'[ret'.key] > 0]_vars

\* the loop ended in the second round or later with the player as the survivor
C27_Witness ==
    /\ ret.op = "combat_encounter" /\ ret.key = Player
    /\ round >= 2
    /\ hp[Goblin] = 0 /\ hp[Player] > 0

(* C28.  An encounter awards experience to the player if and only if the     *)
(* player is the winner (enemy at hp = 0, player alive), in the amount of the *)
(* enemy's xp_value; an encounter ended by fleeing or by the player's death   *)
(* changes neither experience nor level.                                      *)
C28_WinnerIsAwarded ==
    [][ret'.op = "combat_encounter" =>
          IF hp[Goblin] = 0 /\ hp[Player] > 0
            THEN /\ ret'.status # "AttributeError"
                 /\ pc' \in {"idle", "leveling"}
            ELSE UNCHANGED <<experience, level>>]_vars

(* C28 for the encounters that the player does not win: fleeing leaves        *)
(* experience and level unchanged.                                            *)
C28_FleeingAwardsNothing ==
    [][InLoop /\ ~(ret'.op = "combat_encounter" /\ ret'.key = Player) =>
          UNCHANGED <<experience, level>>]_vars

====
